---- MODULE Spec2Model ----
\* A model of the CHIP-8 interpreter of src/src/lib.rs (struct Chip8Emulator):
\* the machine state, every instruction handler, tick(), tick_timers() and
\* keypress(), and the properties of the specification checked against them.
EXTENDS Integers, Sequences, FiniteSets

\* ------------------------------------------------------------------ constants
RAM_SIZE == 4096
SCREEN_HEIGHT == 32
SCREEN_WIDTH == 64
NUM_REGS == 16
STACK_SIZE == 16
NUM_KEYS == 16
START_ADDR == 512
OPCODE_SIZE == 2

\* u8 and u16 value ranges
U8_MOD == 256
U16_MOD == 65536

FONT_SPRITES ==
  << 240, 144, 144, 144, 240,
     32, 96, 32, 32, 112,
     240, 16, 240, 128, 240,
     240, 16, 240, 16, 240,
     144, 144, 240, 16, 16,
     240, 128, 240, 16, 240,
     240, 128, 240, 144, 240,
     240, 16, 32, 64, 64,
     240, 144, 240, 144, 240,
     240, 144, 240, 16, 240,
     240, 144, 240, 144, 144,
     224, 144, 224, 144, 224,
     240, 128, 128, 128, 240,
     224, 144, 144, 144, 224,
     240, 128, 240, 128, 240,
     240, 128, 240, 128, 128 >>

\* ------------------------------------------------------------------ panics
\* A panic aborts the process; `fault` records which one (NoFault while running).
NoFault == "none"
StackOverflow == "Stack overflow"
StackUnderflow == "Stack underflow"
NotImplemented == "not implemented"
IndexOutOfBounds == "index out of bounds"
ArithmeticOverflow == "attempt to add with overflow"
KeyOutsideBounds == "is outside bounds"

\* ------------------------------------------------------------------ bit helpers
Pow2(k) == CASE k = 0 -> 1 [] k = 1 -> 2 [] k = 2 -> 4 [] k = 3 -> 8
             [] k = 4 -> 16 [] k = 5 -> 32 [] k = 6 -> 64 [] k = 7 -> 128
             [] OTHER -> 256

\* bit k (0 = least significant) of the byte v
Bit(v, k) == (v \div Pow2(k)) % 2

\* the byte whose bit k is f[k]
FromBits(f) ==
  f[0] + 2 * f[1] + 4 * f[2] + 8 * f[3] + 16 * f[4] + 32 * f[5] + 64 * f[6] + 128 * f[7]

BitOr(a, b) == FromBits([k \in 0..7 |-> IF Bit(a, k) = 1 \/ Bit(b, k) = 1 THEN 1 ELSE 0])
BitAnd(a, b) == FromBits([k \in 0..7 |-> IF Bit(a, k) = 1 /\ Bit(b, k) = 1 THEN 1 ELSE 0])
BitXor(a, b) == FromBits([k \in 0..7 |-> IF Bit(a, k) # Bit(b, k) THEN 1 ELSE 0])

\* ------------------------------------------------------------------ state
VARIABLES
  v_registers,      \* [u8; 16]
  i_register,       \* u16
  program_counter,  \* u16
  memory,           \* [u8; 4096]
  stack_pointer,    \* usize
  stack,            \* [u16; 16]
  display,          \* [bool; 2048]
  keyboard,         \* [bool; 16]
  delay_timer,      \* u8
  sound_timer,      \* u8
  fault,            \* the panic that aborted the process, or NoFault
  overflow_checks,  \* TRUE: debug build (integer overflow panics); FALSE: release (wraps)
  last,             \* the last operation called: [op, opcode, result]
  before,           \* registers, I, PC, SP and display as they were before `last`
  start,            \* the registers the run started with
  steps,            \* number of operations called so far
  timer_calls       \* number of tick_timers() calls so far

vars == << v_registers, i_register, program_counter, memory, stack_pointer, stack,
           display, keyboard, delay_timer, sound_timer, fault, overflow_checks,
           last, before, start, steps, timer_calls >>

\* The emulator as one record, the `self` the handlers work on.
Machine ==
  [ v_registers |-> v_registers, i_register |-> i_register,
    program_counter |-> program_counter, memory |-> memory,
    stack_pointer |-> stack_pointer, stack |-> stack, display |-> display,
    keyboard |-> keyboard, delay_timer |-> delay_timer, sound_timer |-> sound_timer,
    fault |-> fault, overflow_checks |-> overflow_checks ]

Panic(m, msg) == [m EXCEPT !.fault = msg]

\* [0; 4096] and [false; SCREEN_HEIGHT * SCREEN_WIDTH]
ZeroMemory == [a \in 0..(RAM_SIZE - 1) |-> 0]
BlankDisplay == [p \in 0..(SCREEN_HEIGHT * SCREEN_WIDTH - 1) |-> FALSE]

\* impl Default for Chip8Emulator
Default(oc) ==
  [ v_registers |-> [r \in 0..(NUM_REGS - 1) |-> 0],
    i_register |-> 0,
    program_counter |-> START_ADDR,
    memory |-> ZeroMemory,
    stack_pointer |-> 0,
    stack |-> [s \in 0..(STACK_SIZE - 1) |-> 0],
    display |-> BlankDisplay,
    keyboard |-> [k \in 0..(NUM_KEYS - 1) |-> FALSE],
    delay_timer |-> 0,
    sound_timer |-> 0,
    fault |-> NoFault,
    overflow_checks |-> oc ]

\* memory[start_idx .. start_idx + len(data)].copy_from_slice(data); the slice is
\* bounds-checked before any byte is copied
RECURSIVE copy_from_slice(_, _, _)
copy_from_slice(mem, data, at) ==
  IF data = << >> THEN mem
  ELSE copy_from_slice([mem EXCEPT ![at] = Head(data)], Tail(data), at + 1)

load_data_range(m, data, start_idx) ==
  IF start_idx + Len(data) > RAM_SIZE
  THEN Panic(m, IndexOutOfBounds)
  ELSE [m EXCEPT !.memory = copy_from_slice(m.memory, data, start_idx)]

load_data(m, data) == load_data_range(m, data, START_ADDR)

\* memory after emu.memory[..(16 * 5)].copy_from_slice(&FONT_SPRITES)
FontMemory == [a \in 0..(RAM_SIZE - 1) |-> IF a < 16 * 5 THEN FONT_SPRITES[a + 1] ELSE 0]

new(oc) == [Default(oc) EXCEPT !.memory = FontMemory]

\* keyboard[idx] = pressed; debug_assert!(idx < NUM_KEYS) in a debug build, the
\* array index check in a release build
keypress(m, idx, pressed) ==
  IF idx >= NUM_KEYS
  THEN Panic(m, IF m.overflow_checks THEN KeyOutsideBounds ELSE IndexOutOfBounds)
  ELSE [m EXCEPT !.keyboard[idx] = pressed]

\* tick_timers decrementing without the `> 0` guards (a wrapping decrement)
tick_timers_wrapping(m) ==
  [m EXCEPT !.delay_timer = (@ - 1) % U8_MOD, !.sound_timer = (@ - 1) % U8_MOD]

tick_timers(m) ==
  LET m1 == IF m.delay_timer > 0 THEN [m EXCEPT !.delay_timer = @ - 1] ELSE m
  IN  IF m1.sound_timer > 0 THEN [m1 EXCEPT !.sound_timer = @ - 1] ELSE m1

\* ------------------------------------------------------------------ fetch
\* the big-endian word at the program counter: (op_byte_1 << 8) | op_byte_2
opcode_at(m) == m.memory[m.program_counter] * 256 + m.memory[m.program_counter + 1]

\* both byte reads of read_opcode are inside memory
fetch_in_bounds(m) == m.program_counter + 1 < RAM_SIZE

\* read_opcode leaving the program counter where it was
read_opcode_no_advance(m) ==
  IF ~fetch_in_bounds(m)
  THEN Panic(m, IndexOutOfBounds)
  ELSE m

\* read_opcode's effect on the machine: program_counter += OPCODE_SIZE
read_opcode(m) ==
  IF ~fetch_in_bounds(m)
  THEN Panic(m, IndexOutOfBounds)
  ELSE [m EXCEPT !.program_counter = @ + OPCODE_SIZE]

\* ------------------------------------------------------------------ handlers
\* skip_val_eq skipping one byte instead of one instruction
skip_val_eq_one_byte(m, x, byte) ==
  IF m.v_registers[x] = byte
  THEN [m EXCEPT !.program_counter = @ + 1]
  ELSE m

\* 3xkk
skip_val_eq(m, x, byte) ==
  IF m.v_registers[x] = byte
  THEN [m EXCEPT !.program_counter = @ + OPCODE_SIZE] ELSE m

\* 4xkk
skip_val_not_eq(m, x, byte) ==
  IF m.v_registers[x] # byte
  THEN [m EXCEPT !.program_counter = @ + OPCODE_SIZE] ELSE m

\* 5xy_
skip_registers_eq(m, x, y) ==
  IF m.v_registers[x] = m.v_registers[y]
  THEN [m EXCEPT !.program_counter = @ + OPCODE_SIZE] ELSE m

\* 6xkk
load_register(m, x, byte) == [m EXCEPT !.v_registers[x] = byte]

\* add_to_register setting VF to the carry, as 8xy4 does
add_to_register_with_carry(m, x, byte) ==
  [m EXCEPT !.v_registers[x] = (@ + byte) % U8_MOD,
            !.v_registers[15] = IF m.v_registers[x] + byte >= U8_MOD THEN 1 ELSE 0]

\* 7xkk: wrapping_add
add_to_register(m, x, byte) == [m EXCEPT !.v_registers[x] = (@ + byte) % U8_MOD]

\* 8xy0
load(m, x, y) == [m EXCEPT !.v_registers[x] = m.v_registers[y]]

\* 8xy1
or(m, x, y) == [m EXCEPT !.v_registers[x] = BitOr(@, m.v_registers[y])]

\* 8xy2
and(m, x, y) == [m EXCEPT !.v_registers[x] = BitAnd(@, m.v_registers[y])]

\* 8xy3
xor(m, x, y) == [m EXCEPT !.v_registers[x] = BitXor(@, m.v_registers[y])]

\* 8xy5: (val, overflow) = arg1.overflowing_sub(arg2); Vx = val; then VF
sub_xy(m, x, y) ==
  LET arg1 == m.v_registers[x]
      arg2 == m.v_registers[y]
      val == (arg1 - arg2) % U8_MOD
      overflow == arg1 < arg2
      m1 == [m EXCEPT !.v_registers[x] = val]
  IN  [m1 EXCEPT !.v_registers[15] = IF overflow THEN 1 ELSE 0]

\* shift_right storing the flag before the shift instead of after it
shift_right_flag_first(m, x) ==
  LET lsb == m.v_registers[x] % 2
      m1 == [m EXCEPT !.v_registers[15] = lsb]
  IN  [m1 EXCEPT !.v_registers[x] = @ \div 2]

\* 8xy6
shift_right(m, x) ==
  LET lsb == m.v_registers[x] % 2
      m1 == [m EXCEPT !.v_registers[x] = @ \div 2]
  IN  [m1 EXCEPT !.v_registers[15] = lsb]

\* 8xy7: (val, overflow) = arg2.overflowing_sub(arg1)
subn(m, x, y) ==
  LET arg1 == m.v_registers[x]
      arg2 == m.v_registers[y]
      val == (arg2 - arg1) % U8_MOD
      overflow == arg2 < arg1
      m1 == [m EXCEPT !.v_registers[x] = val]
  IN  [m1 EXCEPT !.v_registers[15] = IF overflow THEN 1 ELSE 0]

\* 8xyE
shift_left(m, x) ==
  LET msb == (m.v_registers[x] \div 128) % 2
      m1 == [m EXCEPT !.v_registers[x] = (@ * 2) % U8_MOD]
  IN  [m1 EXCEPT !.v_registers[15] = msb]

\* 9xy0
skip_registers_ne(m, x, y) ==
  IF m.v_registers[x] # m.v_registers[y]
  THEN [m EXCEPT !.program_counter = @ + OPCODE_SIZE] ELSE m

\* cls clearing the top row only
cls_first_row(m) ==
  [m EXCEPT !.display = [idx \in 0..(SCREEN_HEIGHT * SCREEN_WIDTH - 1) |->
                           IF idx < SCREEN_WIDTH THEN FALSE ELSE m.display[idx]]]

\* 00E0
cls(m) == [m EXCEPT !.display = BlankDisplay]

\* 1nnn
jmp(m, addr) == [m EXCEPT !.program_counter = addr]

\* call pushing the address of the CALL itself instead of the next instruction
call_pushes_own_address(m, addr) ==
  IF ~(m.stack_pointer < STACK_SIZE)
  THEN Panic(m, StackOverflow)
  ELSE [m EXCEPT !.stack[m.stack_pointer] = m.program_counter - OPCODE_SIZE,
                 !.stack_pointer = @ + 1,
                 !.program_counter = addr]

\* 2nnn
call(m, addr) ==
  IF ~(m.stack_pointer < STACK_SIZE)
  THEN Panic(m, StackOverflow)
  ELSE [m EXCEPT !.stack[m.stack_pointer] = m.program_counter,
                 !.stack_pointer = @ + 1,
                 !.program_counter = addr]

\* ret returning silently when the stack is empty
ret_no_assert(m) ==
  IF m.stack_pointer = 0
  THEN m
  ELSE [m EXCEPT !.stack_pointer = @ - 1,
                 !.program_counter = m.stack[m.stack_pointer - 1]]

\* 00EE
ret(m) ==
  IF ~(m.stack_pointer # 0)
  THEN Panic(m, StackUnderflow)
  ELSE [m EXCEPT !.stack_pointer = @ - 1,
                 !.program_counter = m.stack[m.stack_pointer - 1]]

\* add_xy without the carry flag
add_xy_no_flag(m, x, y) ==
  [m EXCEPT !.v_registers[x] = (@ + m.v_registers[y]) % U8_MOD]

\* 8xy4: (val, overflow) = arg1.overflowing_add(arg2); Vx = val; then VF
add_xy(m, x, y) ==
  LET arg1 == m.v_registers[x]
      arg2 == m.v_registers[y]
      val == (arg1 + arg2) % U8_MOD
      overflow == arg1 + arg2 >= U8_MOD
      m1 == [m EXCEPT !.v_registers[x] = val]
  IN  [m1 EXCEPT !.v_registers[15] = IF overflow THEN 1 ELSE 0]

\* Annn
load_i_reg(m, addr) == [m EXCEPT !.i_register = addr]

\* Bnnn
jump_from(m, addr) == [m EXCEPT !.program_counter = m.v_registers[0] + addr]

\* Cxkk: r is the byte fastrand::u8(..) returned
rand(m, x, byte, r) == [m EXCEPT !.v_registers[x] = BitAnd(r, byte)]

\* draw_columns testing the bits least significant first
draw_columns_lsb_first(acc, pixels, x_coord, y) ==
  LET set(x_line) == Bit(pixels, x_line) # 0
      idx(x_line) == ((x_coord + x_line) % SCREEN_WIDTH) + SCREEN_WIDTH * y
  IN  [acc EXCEPT
         !.display = [@ EXCEPT ![idx(0)] = (@ # set(0)), ![idx(1)] = (@ # set(1)),
                               ![idx(2)] = (@ # set(2)), ![idx(3)] = (@ # set(3)),
                               ![idx(4)] = (@ # set(4)), ![idx(5)] = (@ # set(5)),
                               ![idx(6)] = (@ # set(6)), ![idx(7)] = (@ # set(7))],
         !.flipped = @ \/ \E x_line \in 0..7 : set(x_line) /\ acc.display[idx(x_line)]]

\* draw_columns switching the cells of set bits on instead of XORing them
draw_columns_or(acc, pixels, x_coord, y) ==
  LET set(x_line) == Bit(pixels, 7 - x_line) # 0
      idx(x_line) == ((x_coord + x_line) % SCREEN_WIDTH) + SCREEN_WIDTH * y
  IN  [acc EXCEPT
         !.display = [@ EXCEPT ![idx(0)] = (@ \/ set(0)), ![idx(1)] = (@ \/ set(1)),
                               ![idx(2)] = (@ \/ set(2)), ![idx(3)] = (@ \/ set(3)),
                               ![idx(4)] = (@ \/ set(4)), ![idx(5)] = (@ \/ set(5)),
                               ![idx(6)] = (@ \/ set(6)), ![idx(7)] = (@ \/ set(7))],
         !.flipped = @ \/ \E x_line \in 0..7 : set(x_line) /\ acc.display[idx(x_line)]]

\* one row of the sprite, the loop over x_line in 0..8: a set bit (most significant
\* first) XORs its cell, after `flipped |= display[idx]`; the 8 cells are distinct
draw_columns(acc, pixels, x_coord, y) ==
  LET set(x_line) == Bit(pixels, 7 - x_line) # 0
      idx(x_line) == ((x_coord + x_line) % SCREEN_WIDTH) + SCREEN_WIDTH * y
  IN  [acc EXCEPT
         !.display = [@ EXCEPT ![idx(0)] = (@ # set(0)), ![idx(1)] = (@ # set(1)),
                               ![idx(2)] = (@ # set(2)), ![idx(3)] = (@ # set(3)),
                               ![idx(4)] = (@ # set(4)), ![idx(5)] = (@ # set(5)),
                               ![idx(6)] = (@ # set(6)), ![idx(7)] = (@ # set(7))],
         !.flipped = @ \/ \E x_line \in 0..7 : set(x_line) /\ acc.display[idx(x_line)]]

\* the address of sprite row y_line, `self.i_register + y_line` in u16: -1 when the
\* addition overflows in a build that checks it, the wrapped sum otherwise
sprite_row_addr(m, y_line) ==
  LET sum == m.i_register + y_line
  IN  IF sum >= U16_MOD
      THEN (IF m.overflow_checks THEN -1 ELSE sum - U16_MOD)
      ELSE sum

\* rows y_line..num_rows-1 of the sprite; a row whose address cannot be read
\* panics and leaves the rows drawn so far on the display
RECURSIVE draw_rows(_, _, _, _, _, _)
draw_rows(m, acc, x_coord, y_coord, y_line, num_rows) ==
  IF y_line >= num_rows THEN [acc EXCEPT !.fault = NoFault]
  ELSE LET addr == sprite_row_addr(m, y_line)
       IN  IF addr < 0 THEN [acc EXCEPT !.fault = ArithmeticOverflow]
           ELSE IF addr >= RAM_SIZE THEN [acc EXCEPT !.fault = IndexOutOfBounds]
           ELSE draw_rows(m,
                          draw_columns(acc, m.memory[addr], x_coord,
                                       (y_coord + y_line) % SCREEN_HEIGHT),
                          x_coord, y_coord, y_line + 1, num_rows)

\* display writing VF only when a pixel was erased (never resetting it to 0)
display_sprite_no_reset(m, x, y, d) ==
  LET drawn == draw_rows(m, [display |-> m.display, flipped |-> FALSE, fault |-> NoFault],
                         m.v_registers[x], m.v_registers[y], 0, d)
  IN  IF drawn.fault # NoFault
      THEN [m EXCEPT !.display = drawn.display, !.fault = drawn.fault]
      ELSE IF drawn.flipped
           THEN [m EXCEPT !.display = drawn.display, !.v_registers[15] = 1]
           ELSE [m EXCEPT !.display = drawn.display]

\* Dxyn
display_sprite(m, x, y, d) ==
  LET x_coord == m.v_registers[x]
      y_coord == m.v_registers[y]
      num_rows == d
      drawn == draw_rows(m, [display |-> m.display, flipped |-> FALSE, fault |-> NoFault],
                         x_coord, y_coord, 0, num_rows)
  IN  IF drawn.fault # NoFault
      THEN [m EXCEPT !.display = drawn.display, !.fault = drawn.fault]
      ELSE [m EXCEPT !.display = drawn.display,
                     !.v_registers[15] = IF drawn.flipped THEN 1 ELSE 0]

\* Ex9E
skip_if_key(m, x) ==
  LET vx == m.v_registers[x]
  IN  IF vx >= NUM_KEYS THEN Panic(m, IndexOutOfBounds)
      ELSE IF m.keyboard[vx]
           THEN [m EXCEPT !.program_counter = @ + OPCODE_SIZE] ELSE m

\* ExA1
skip_not_key(m, x) ==
  LET vx == m.v_registers[x]
  IN  IF vx >= NUM_KEYS THEN Panic(m, IndexOutOfBounds)
      ELSE IF ~m.keyboard[vx]
           THEN [m EXCEPT !.program_counter = @ + OPCODE_SIZE] ELSE m

\* Fx07
set_register_to_delay(m, x) == [m EXCEPT !.v_registers[x] = m.delay_timer]

\* the keys the enumeration of wait_timer finds pressed
pressed_keys(m) == {k \in 0..(NUM_KEYS - 1) : m.keyboard[k]}

\* the first pressed key in index order, where the loop breaks
first_pressed(m) == CHOOSE k \in pressed_keys(m) : \A j \in pressed_keys(m) : k <= j

\* wait_timer without the `break`: the last pressed key wins
wait_timer_no_break(m, x) ==
  IF pressed_keys(m) # {}
  THEN [m EXCEPT !.v_registers[x] =
          CHOOSE k \in pressed_keys(m) : \A j \in pressed_keys(m) : k >= j]
  ELSE [m EXCEPT !.program_counter = @ - OPCODE_SIZE]

\* Fx0A
wait_timer(m, x) ==
  IF pressed_keys(m) # {}
  THEN [m EXCEPT !.v_registers[x] = first_pressed(m)]
  ELSE [m EXCEPT !.program_counter = @ - OPCODE_SIZE]

\* Fx15
set_timer(m, x) == [m EXCEPT !.delay_timer = m.v_registers[x]]

\* set_sound_timer setting the delay timer as well
set_sound_timer_both(m, x) ==
  [m EXCEPT !.sound_timer = m.v_registers[x], !.delay_timer = m.v_registers[x]]

\* Fx18
set_sound_timer(m, x) == [m EXCEPT !.sound_timer = m.v_registers[x]]

\* Fx1E: i_register += Vx as u16
add_to_i_register(m, x) ==
  LET sum == m.i_register + m.v_registers[x]
  IN  IF sum >= U16_MOD
      THEN (IF m.overflow_checks THEN Panic(m, ArithmeticOverflow)
            ELSE [m EXCEPT !.i_register = sum - U16_MOD])
      ELSE [m EXCEPT !.i_register = sum]

\* Fx29
set_i_to_font_addr(m, x) == [m EXCEPT !.i_register = m.v_registers[x] * 5]

\* Fx33: the digits are computed in f64: floor(vx / 100.0), floor((vx / 10.0) % 10.0)
\* and floor(vx % 1.0); an integral vx has vx % 1.0 = 0
store_bcd_encoding(m, x) ==
  LET vx == m.v_registers[x]
      hundredths == vx \div 100
      tenths == (vx \div 10) % 10
      ones == 0
  IN  load_data_range(m, << hundredths, tenths, ones >>, m.i_register)

\* Fx55: for offset in 0..=x { memory[i_addr + offset] = v_registers[x] }; the
\* first index outside memory panics, the bytes written before it stay written
RECURSIVE store_from(_, _, _)
store_from(m, x, offset) ==
  IF offset > x THEN m
  ELSE IF m.i_register + offset >= RAM_SIZE THEN Panic(m, IndexOutOfBounds)
  ELSE store_from([m EXCEPT !.memory[m.i_register + offset] = m.v_registers[x]],
                  x, offset + 1)

store_registers_at_i(m, x) == store_from(m, x, 0)

\* Fx65 copying in the direction of Fx55, registers to memory
load_registers_from_i_addr_storing(m, x) == store_registers_at_i(m, x)

\* Fx65: for reg_idx in 0..=x { v_registers[reg_idx] = memory[i_register + reg_idx] }
RECURSIVE load_from(_, _, _)
load_from(m, x, reg_idx) ==
  IF reg_idx > x THEN m
  ELSE IF m.i_register + reg_idx >= RAM_SIZE THEN Panic(m, IndexOutOfBounds)
  ELSE load_from([m EXCEPT !.v_registers[reg_idx] = m.memory[m.i_register + reg_idx]],
                 x, reg_idx + 1)

load_registers_from_i_addr(m, x) == load_from(m, x, 0)

\* ------------------------------------------------------------------ tick
\* the match of tick() on (c, x, y, d), on the machine read_opcode left
dispatch(m, opcode, r) ==
  LET c == opcode \div 4096
      x == (opcode \div 256) % 16
      y == (opcode \div 16) % 16
      d == opcode % 16
      addr == opcode % 4096
      byte == opcode % 256
  IN  CASE c = 0 /\ x = 0 /\ y = 0 /\ d = 0 -> m
        [] c = 0 /\ x = 0 /\ y = 14 /\ d = 0 -> cls(m)
        [] c = 0 /\ x = 0 /\ y = 14 /\ d = 14 -> ret(m)
        [] c = 1 -> jmp(m, addr)
        [] c = 2 -> call(m, addr)
        [] c = 3 -> skip_val_eq(m, x, byte)
        [] c = 4 -> skip_val_not_eq(m, x, byte)
        [] c = 5 -> skip_registers_eq(m, x, y)
        [] c = 6 -> load_register(m, x, byte)
        [] c = 7 -> add_to_register(m, x, byte)
        [] c = 8 /\ d = 0 -> load(m, x, y)
        [] c = 8 /\ d = 1 -> or(m, x, y)
        [] c = 8 /\ d = 2 -> and(m, x, y)
        [] c = 8 /\ d = 3 -> xor(m, x, y)
        [] c = 8 /\ d = 4 -> add_xy(m, x, y)
        [] c = 8 /\ d = 5 -> sub_xy(m, x, y)
        [] c = 8 /\ d = 6 -> shift_right(m, x)
        [] c = 8 /\ d = 7 -> subn(m, x, y)
        [] c = 8 /\ d = 14 -> shift_left(m, x)
        [] c = 9 /\ d = 0 -> skip_registers_ne(m, x, y)
        [] c = 10 -> load_i_reg(m, addr)
        [] c = 11 -> jump_from(m, addr)
        [] c = 12 -> rand(m, x, byte, r)
        [] c = 13 -> display_sprite(m, x, y, d)
        [] c = 14 /\ y = 9 /\ d = 14 -> skip_if_key(m, x)
        [] c = 14 /\ y = 10 /\ d = 1 -> skip_not_key(m, x)
        [] c = 15 /\ y = 0 /\ d = 7 -> set_register_to_delay(m, x)
        [] c = 15 /\ y = 0 /\ d = 10 -> wait_timer(m, x)
        [] c = 15 /\ y = 1 /\ d = 5 -> set_timer(m, x)
        [] c = 15 /\ y = 1 /\ d = 8 -> set_sound_timer(m, x)
        [] c = 15 /\ y = 1 /\ d = 14 -> add_to_i_register(m, x)
        [] c = 15 /\ y = 2 /\ d = 9 -> set_i_to_font_addr(m, x)
        [] c = 15 /\ y = 3 /\ d = 3 -> store_bcd_encoding(m, x)
        [] c = 15 /\ y = 5 /\ d = 5 -> store_registers_at_i(m, x)
        [] c = 15 /\ y = 6 /\ d = 5 -> load_registers_from_i_addr(m, x)
        [] OTHER -> Panic(m, NotImplemented)

\* tick(): the machine after one step; r is the random byte a Cxkk would draw
tick(m, r) ==
  IF ~fetch_in_bounds(m) THEN read_opcode(m)
  ELSE dispatch(read_opcode(m), opcode_at(m), r)

\* what tick() returns from m: None for the word 0x0000, Some(()) otherwise
\* ("Panic" when the step does not return)
\* tick() without the early return of the 0x0000 arm
tick_return_no_halt(m, r) ==
  IF tick(m, r).fault # NoFault THEN "Panic" ELSE "Some"

tick_return(m, r) ==
  IF tick(m, r).fault # NoFault THEN "Panic"
  ELSE IF opcode_at(m) = 0 THEN "None" ELSE "Some"

\* ------------------------------------------------------------------ operations
\* the fields the properties compare against after an operation
Snapshot(m) ==
  [ v_registers |-> m.v_registers, i_register |-> m.i_register,
    program_counter |-> m.program_counter, stack_pointer |-> m.stack_pointer,
    display |-> m.display ]

\* the machine `next` becomes the next state
Becomes(next) ==
  \E m \in {next} :
  /\ v_registers' = m.v_registers
  /\ i_register' = m.i_register
  /\ program_counter' = m.program_counter
  /\ memory' = m.memory
  /\ stack_pointer' = m.stack_pointer
  /\ stack' = m.stack
  /\ display' = m.display
  /\ keyboard' = m.keyboard
  /\ delay_timer' = m.delay_timer
  /\ sound_timer' = m.sound_timer
  /\ fault' = m.fault
  /\ overflow_checks' = m.overflow_checks

\* the machine `first` is the initial state
StartsAs(first) ==
  \E m \in {first} :
  /\ v_registers = m.v_registers
  /\ i_register = m.i_register
  /\ program_counter = m.program_counter
  /\ memory = m.memory
  /\ stack_pointer = m.stack_pointer
  /\ stack = m.stack
  /\ display = m.display
  /\ keyboard = m.keyboard
  /\ delay_timer = m.delay_timer
  /\ sound_timer = m.sound_timer
  /\ fault = m.fault
  /\ overflow_checks = m.overflow_checks
  /\ last = [op |-> "new", opcode |-> -1, result |-> "Some"]
  /\ before = Snapshot(m)
  /\ start = m.v_registers
  /\ steps = 0
  /\ timer_calls = 0

\* the bytes fastrand::u8(..) may return to this step
RandSamples == {0, 85, 170, 255}
RandBytes(m) ==
  IF fetch_in_bounds(m) /\ opcode_at(m) \div 4096 = 12 THEN RandSamples ELSE {0}

\* the word the step fetched (-1 when the fetch itself is out of bounds)
Fetched(m) == IF fetch_in_bounds(m) THEN opcode_at(m) ELSE -1

\* a call of tick() by the host, at most `cap` operations into the run
Tick(cap) ==
  /\ fault = NoFault
  /\ steps < cap
  /\ \E r \in RandBytes(Machine) :
       /\ Becomes(tick(Machine, r))
       /\ last' = [op |-> "tick", opcode |-> Fetched(Machine),
                   result |-> tick_return(Machine, r)]
  /\ before' = Snapshot(Machine)
  /\ steps' = steps + 1
  /\ UNCHANGED << start, timer_calls >>

\* a call of tick_timers() by the host
TickTimers(cap) ==
  /\ fault = NoFault
  /\ steps < cap
  /\ Becomes(tick_timers(Machine))
  /\ last' = [op |-> "tick_timers", opcode |-> -1, result |-> "Some"]
  /\ before' = Snapshot(Machine)
  /\ steps' = steps + 1
  /\ timer_calls' = timer_calls + 1
  /\ UNCHANGED start

\* a call of keypress(idx, pressed) by the host, idx one of `keys`
Keypress(cap, keys) ==
  /\ fault = NoFault
  /\ steps < cap
  /\ \E idx \in keys, pressed \in BOOLEAN :
       /\ Becomes(keypress(Machine, idx, pressed))
       /\ last' = [op |-> "keypress", opcode |-> idx,
                   result |-> IF idx < NUM_KEYS THEN "Some" ELSE "Panic"]
  /\ before' = Snapshot(Machine)
  /\ steps' = steps + 1
  /\ UNCHANGED << start, timer_calls >>

\* a call of load_data(data) by the host, data one of `roms`
Load(cap, roms) ==
  /\ fault = NoFault
  /\ steps < cap
  /\ \E data \in roms :
       Becomes(load_data(Machine, data))
  /\ last' = [op |-> "load", opcode |-> -1, result |-> "Some"]
  /\ before' = Snapshot(Machine)
  /\ steps' = steps + 1
  /\ UNCHANGED << start, timer_calls >>

\* ------------------------------------------------------------------ inputs
\* EdgeBytes values at each end of the u8 range and around its middle
EdgeBytes == 2
Bytes ==
  {b \in 0..255 : \/ b < EdgeBytes
                  \/ b >= 256 - EdgeBytes
                  \/ (b >= 128 - EdgeBytes /\ b < 128 + EdgeBytes)}

\* registers holding distinct values, none of them 0 or 1
Filled(m) == [m EXCEPT !.v_registers = [r \in 0..(NUM_REGS - 1) |-> 16 * r + 3]]

\* an instruction word from its four nibbles
Word(c, x, y, d) == 4096 * c + 256 * x + 16 * y + d

\* the bytes of a program, from its words
RECURSIVE ProgramBytes(_)
ProgramBytes(words) ==
  IF words = << >> THEN << >>
  ELSE << Head(words) \div 256, Head(words) % 256 >> \o ProgramBytes(Tail(words))

\* ------------------------------------------------------------------ 8xy_ arithmetic
MaxArithSteps == 2
ArithOps == {4, 5, 6, 7, 14}
ArithX == {0, 15}
ArithY == {0, 1, 15}

InitArith ==
  \E oc \in BOOLEAN, d \in ArithOps, x \in ArithX, y \in ArithY, a \in Bytes, b \in Bytes :
    /\ (x = y => a = b)
    /\ StartsAs(load_data([Filled(new(oc)) EXCEPT !.v_registers[x] = a,
                                                  !.v_registers[y] = b],
                          ProgramBytes(<< Word(8, x, y, d) >>)))

NextArith == Tick(MaxArithSteps)

SpecArith == InitArith /\ [][NextArith]_vars

\* ------------------------------------------------------------------ tests::it_works
MaxItWorksSteps == 10
MaxItWorksV0 == 7
MaxItWorksV1 == 3
ItWorksV0 == 0..MaxItWorksV0
ItWorksV1 == {10 + 60 * k : k \in 0..MaxItWorksV1}

\* CALL 0x100; CALL 0x100; halt   and, at 0x100,   ADD V0,V1; ADD V0,V1; RET
it_works_data == << 33, 0, 33, 0, 0, 0 >>
it_works_func_data == << 128, 20, 128, 20, 0, 238 >>

InitItWorks ==
  \E oc \in BOOLEAN, v0 \in ItWorksV0, v1 \in ItWorksV1 :
    StartsAs(load_data_range(load_data([new(oc) EXCEPT !.v_registers[0] = v0,
                                                       !.v_registers[1] = v1],
                                       it_works_data),
                             it_works_func_data, 256))

\* loop { if cpu.tick().is_none() { break; } }
LoopTick(cap) == last.result # "None" /\ Tick(cap)

NextItWorks == LoopTick(MaxItWorksSteps)

SpecItWorks == InitItWorks /\ [][NextItWorks]_vars /\ WF_vars(NextItWorks)

\* ------------------------------------------------------------------ CALL then RET
MaxCallRetSteps == 3
MaxCallRetSp == 1
\* 0x200, 0x2FF (odd: its second byte is the first byte at 0x300), 0x3FE, 0xFFE
CallRetAt == {512, 767, 1022, 4094}
\* 0x100, 0x202, 0x300, 0x400
CallRetTarget == {256, 514, 768, 1024}
CallRetSp == (0..MaxCallRetSp) \cup {STACK_SIZE - 1, STACK_SIZE}

\* the word at p: CALL nnn, or RET
CallRetFirst == {8192 + nnn : nnn \in CallRetTarget} \cup {238}

\* CALL nnn at p and RET at nnn (or RET alone at p), with sp return addresses
\* already on the stack
InitCallRet ==
  \E oc \in BOOLEAN, p \in CallRetAt, first \in CallRetFirst, sp \in CallRetSp :
    \E m \in {load_data_range(
                 load_data_range([new(oc) EXCEPT !.program_counter = p,
                                                 !.stack_pointer = sp,
                                                 !.stack = [s \in 0..(STACK_SIZE - 1) |->
                                                              IF s < sp THEN 2 * s + 1536 ELSE 0]],
                                 ProgramBytes(<< first >>), p),
                 ProgramBytes(<< 238 >>), IF first = 238 THEN p ELSE first % 4096)} :
      /\ opcode_at(m) = first
      /\ StartsAs(m)

NextCallRet == Tick(MaxCallRetSteps)

SpecCallRet == InitCallRet /\ [][NextCallRet]_vars

\* ------------------------------------------------------------------ Fx0A key-wait
MaxKeyWaitSteps == 4
MaxKeyWaitKey == 1
KeyWaitKeys == (0..MaxKeyWaitKey) \cup {NUM_KEYS - 1}
KeyWaitX == {0, 5, 15}

InitKeyWait ==
  \E oc \in BOOLEAN, x \in KeyWaitX :
    StartsAs(load_data(Filled(new(oc)), ProgramBytes(<< Word(15, x, 0, 10) >>)))

NextKeyWait == Tick(MaxKeyWaitSteps) \/ Keypress(MaxKeyWaitSteps, KeyWaitKeys)

SpecKeyWait == InitKeyWait /\ [][NextKeyWait]_vars

\* ------------------------------------------------------------------ timers
MaxTimerSteps == 5
MaxTimer == 3
TimerValues == (0..MaxTimer) \cup {255}

\* LD DT, V0; LD ST, V1
InitTimers ==
  \E oc \in BOOLEAN, v0 \in TimerValues, v1 \in TimerValues :
    StartsAs(load_data([Filled(new(oc)) EXCEPT !.v_registers[0] = v0,
                                               !.v_registers[1] = v1],
                       ProgramBytes(<< Word(15, 0, 1, 5), Word(15, 1, 1, 8) >>)))

NextTimers == Tick(MaxTimerSteps) \/ TickTimers(MaxTimerSteps)

SpecTimers == InitTimers /\ [][NextTimers]_vars

\* ------------------------------------------------------------------ Dxyn sprite draw
MaxDrawSteps == 4
MaxDrawRows == 2
DrawRows == (0..MaxDrawRows) \cup {15}
DrawVx == {0, 63, 255}
DrawVy == {0, 31, 255}
\* the registers x and y of the instruction
DrawXY == {<< 0, 1 >>, << 15, 1 >>, << 0, 15 >>, << 0, 0 >>}
\* the glyph "0", the sprite bytes of the program, the last byte of memory, u16::MAX
DrawI == {0, START_ADDR + 8, RAM_SIZE - 1, U16_MOD - 1}

\* the background draw: none, the same sprite 4 columns to the right, the same
\* sprite at the same place (<< rows drawn, columns to the right >>)
DrawBackground == {<< 0, 0 >>, << 1, 4 >>, << 1, 0 >>}

\* a background draw (D23b), then the same Dxyn twice, a halt and the sprite
\* bytes 0xFF, 0x81
InitDraw ==
  \E oc \in BOOLEAN, xy \in DrawXY, n \in DrawRows, bg \in DrawBackground,
     vx \in DrawVx, vy \in DrawVy, i \in DrawI :
    StartsAs(load_data([Filled(new(oc)) EXCEPT !.v_registers[2] = (vx + bg[2]) % U8_MOD,
                                               !.v_registers[3] = vy,
                                               !.v_registers[xy[1]] = vx,
                                               !.v_registers[xy[2]] = vy,
                                               !.i_register = i],
                       ProgramBytes(<< Word(13, 2, 3, bg[1] * n),
                                       Word(13, xy[1], xy[2], n),
                                       Word(13, xy[1], xy[2], n),
                                       0 >>) \o << 255, 129 >>))

NextDraw == Tick(MaxDrawSteps)

SpecDraw == InitDraw /\ [][NextDraw]_vars

\* ------------------------------------------------------------------ instruction decoding
MaxDecodeSteps == 2
\* the y nibbles the dispatch table names, and one it does not (4)
DecodeY == {0, 1, 2, 3, 4, 5, 6, 9, 10, 14}
\* every class and low nibble with x = 0, and the 0-class words with x = A
DecodeWords ==
  {Word(c, 0, y, d) : c \in 0..15, y \in DecodeY, d \in 0..15}
    \cup {Word(0, 10, y, d) : y \in {0, 14}, d \in {0, 14}}

DecodeKeys == {3, 5}

\* one word at 0x200, I = 0x300, one return address (0x600) on the stack; for the
\* key instructions (classes E and F), possibly with a key held down
InitDecode ==
  \E oc \in BOOLEAN, w \in DecodeWords, k \in DecodeKeys, pressed \in BOOLEAN :
    /\ (w \div 4096 \notin {14, 15}) => (k = 3 /\ ~pressed)
    /\ StartsAs(load_data(keypress([Filled(new(oc)) EXCEPT !.i_register = 768,
                                                          !.stack_pointer = 1,
                                                          !.stack[0] = 1536],
                                   k, pressed),
                          ProgramBytes(<< w >>)))

NextDecode == Tick(MaxDecodeSteps)

SpecDecode == InitDecode /\ [][NextDecode]_vars

\* ------------------------------------------------------------------ Fx33, Fx55, Fx65
MaxStoreSteps == 2
MaxStoreData == 4
StoreX == {0, 2, 15}
\* 0x300; 0xFF0 (I + 15 is the last byte); 0xFFD (I + 2 is); 0xFFE (I + 2 is outside)
StoreI == {768, 4080, 4093, 4094}
StoreOps == {51, 85, 101}
\* bytes found at I, I + 1, ..
StoreData == [k \in 1..MaxStoreData |-> 200 + k]

\* Fx33, Fx55 or Fx65 at 0x200 and Fx65 behind it, Vx = a, data at I
InitStore ==
  \E oc \in BOOLEAN, kk \in StoreOps, x \in StoreX, i \in StoreI, a \in Bytes :
    StartsAs(load_data(
               load_data_range([Filled(new(oc)) EXCEPT !.v_registers[x] = a,
                                                       !.i_register = i],
                               SubSeq(StoreData, 1, IF i + MaxStoreData <= RAM_SIZE
                                                    THEN MaxStoreData ELSE RAM_SIZE - i),
                               i),
               ProgramBytes(<< Word(15, x, 0, 0) + kk, Word(15, x, 6, 5) >>)))

NextStore == Tick(MaxStoreSteps)

SpecStore == InitStore /\ [][NextStore]_vars

\* ------------------------------------------------------------------ whole runs
MaxRunSteps == 19
\* load, tick_timers and keypress happen among the first MaxRunHostSteps operations
MaxRunHostSteps == 3
RunKeys == {0}

\* CALL 0x200 (calls itself until the stack is full)
RomRecurse == << 8704 >>
\* RET on an empty stack
RomReturn == << 238 >>
\* CALL 0x206; CALL 0x206; JP 0x200   and, at 0x206,   ADD V0,1; RET
RomCalls == << 8710, 8710, 4608, 28673, 238 >>
\* JP 0x205 (into the middle of the next word, 0x6012: there 0x1206, JP 0x206)
RomJumpOdd == << 4613, 24594, 1536 >>
\* LD V0,1; JP V0,0x206 (to 0x207)
RomJumpV0 == << 24577, 45574 >>
\* LD V0,3; LD DT,V0; LD V0,K; SKP V0; LD I,0; DRW V0,V0,5; JP 0x200
RomMixed == << 24579, 61461, 61450, 57502, 40960, 53253, 4608 >>
\* LD V0,3; SE V0,3; halt; SNE V0,3; SE V0,V0; halt; SNE V0,V1; JP 0x200
RomSkips == << 24579, 12291, 0, 16387, 20480, 0, 36880, 4608 >>
Roms == {ProgramBytes(words) :
           words \in {RomRecurse, RomReturn, RomCalls, RomJumpOdd, RomJumpV0, RomMixed,
                      RomSkips}}

InitRun == \E oc \in BOOLEAN : StartsAs(new(oc))

NextRun ==
  \/ Load(MaxRunHostSteps, Roms)
  \/ Tick(MaxRunSteps)
  \/ TickTimers(MaxRunHostSteps)
  \/ Keypress(MaxRunHostSteps, RunKeys)

SpecRun == InitRun /\ [][NextRun]_vars

\* ------------------------------------------------------------------ Fx29 and Fx1E
MaxIndexSteps == 490
IndexX == {0, 15}
IndexV == Bytes \cup {9, 15, 16}
\* LD F, Vx
RomFont(x) == << Word(15, x, 2, 9) >>
\* LD I, 0xFFF; ADD I, Vx; JP 0x202 (I passes 0xFFFF at the 241st add of 255)
RomAddI(x) == << 45055, Word(15, x, 1, 14), 4610 >>

InitIndex ==
  \E oc \in BOOLEAN, x \in IndexX, a \in IndexV :
    \E rom \in {RomFont(x), RomAddI(x)} :
      StartsAs(load_data([Filled(new(oc)) EXCEPT !.v_registers[x] = a],
                         ProgramBytes(rom)))

NextIndex == Tick(MaxIndexSteps)

SpecIndex == InitIndex /\ [][NextIndex]_vars

\* ------------------------------------------------------------------ Ex9E and ExA1
MaxKeySkipSteps == 3
MaxKeySkipKey == 1
KeySkipKeys == (0..MaxKeySkipKey) \cup {NUM_KEYS - 1}
KeySkipX == {0, 15}
KeySkipV == {0, 1, NUM_KEYS - 1, NUM_KEYS, 255}
KeySkipOps == {158, 161}

\* SKP Vx or SKNP Vx at 0x200, Vx = a
InitKeySkip ==
  \E oc \in BOOLEAN, kk \in KeySkipOps, x \in KeySkipX, a \in KeySkipV :
    StartsAs(load_data([Filled(new(oc)) EXCEPT !.v_registers[x] = a],
                       ProgramBytes(<< Word(14, x, 0, 0) + kk >>)))

NextKeySkip == Tick(MaxKeySkipSteps) \/ Keypress(MaxKeySkipSteps, KeySkipKeys)

SpecKeySkip == InitKeySkip /\ [][NextKeySkip]_vars

\* ------------------------------------------------------------------ 7xkk and 8xy0..8xy3
MaxLogicSteps == 1
MaxLogicOp == 3
LogicX == {0, 15}
LogicY == {0, 1, 15}
\* ADD Vx,kk with kk = b, and LD / OR / AND / XOR Vx,Vy
LogicWords(x, y, b) ==
  {Word(7, x, 0, 0) + b} \cup {Word(8, x, y, d) : d \in 0..MaxLogicOp}

InitLogic ==
  \E oc \in BOOLEAN, x \in LogicX, y \in LogicY, a \in Bytes, b \in Bytes :
    \E w \in LogicWords(x, y, b) :
      /\ (w \div 4096 = 8 /\ x = y) => a = b
      /\ (w \div 4096 = 7) => y = 0
      /\ StartsAs(load_data([Filled(new(oc)) EXCEPT
                               !.v_registers[x] = a,
                               !.v_registers[y] = IF w \div 4096 = 8 THEN b ELSE @],
                            ProgramBytes(<< w >>)))

NextLogic == Tick(MaxLogicSteps)

SpecLogic == InitLogic /\ [][NextLogic]_vars

\* ------------------------------------------------------------------ frame conditions
MaxFrameSteps == 2
FrameKeys == {3}
\* LD I,0; DRW V0,V0,5; LD DT,V0; LD ST,V1: the glyph "0" lit at (3, 3), DT = 3, ST = 19
FramePrefix == << 40960, 53253, 61461, 61720 >>
\* one word for every arm of the dispatch, and an undefined one
FrameWords ==
  {0, 1, 224, 238, 4620, 8960, 12291, 16387, 20496, 24661, 28673, 36880,
   41251, 45824, 49167, 53541, 57502, 57505,
   61447, 61450, 61717, 61464, 61470, 61481, 61491, 61525, 61797}
    \cup {Word(8, 0, 1, d) : d \in (0..7) \cup {14}}
\* five CLS words, loaded over the program
FrameRoms == {ProgramBytes(<< 224, 224, 224, 224, 224 >>)}

\* the machine after n more steps
RECURSIVE RunTicks(_, _)
RunTicks(m, n) == IF n = 0 THEN m ELSE RunTicks(tick(m, 0), n - 1)

\* the state after the prefix has run, with the word w next
InitFrame ==
  \E oc \in BOOLEAN, w \in FrameWords :
    StartsAs(RunTicks(load_data(Filled(new(oc)), ProgramBytes(FramePrefix \o << w >>)),
                      Len(FramePrefix)))

NextFrame ==
  \/ Tick(MaxFrameSteps)
  \/ TickTimers(MaxFrameSteps)
  \/ Keypress(MaxFrameSteps, FrameKeys)
  \/ Load(MaxFrameSteps, FrameRoms)

SpecFrame == InitFrame /\ [][NextFrame]_vars

\* ------------------------------------------------------------------ timer countdown
MaxCountdownTicks == 3
MaxCountdownTimer == 3
CountdownTimers == 0..MaxCountdownTimer
\* LD DT,V0; LD ST,V1   and then, for ever,   LD V2,DT; JP 0x204
CountdownSet == << 61461, 61720 >>
CountdownLoop == << 61959, 4612 >>

\* the state after the two timers were set, to V0 = d and V1 = s
InitCountdown ==
  \E oc \in BOOLEAN, d \in CountdownTimers, s \in CountdownTimers :
    StartsAs(RunTicks(load_data([Filled(new(oc)) EXCEPT !.v_registers[0] = d,
                                                        !.v_registers[1] = s],
                                ProgramBytes(CountdownSet \o CountdownLoop)),
                      Len(CountdownSet)))

\* App::run: some tick() calls, and tick_timers() once per frame, again and again
CountdownTimerTick == TickTimers(MaxCountdownTicks + MaxCountdownTimer)

NextCountdown == Tick(MaxCountdownTicks) \/ CountdownTimerTick

SpecCountdown == InitCountdown /\ [][NextCountdown]_vars /\ WF_vars(CountdownTimerTick)

\* ------------------------------------------------------------------ properties
\* the last operation was a tick() that fetched a word of class c and returned
Ticked(c) ==
  /\ last.op = "tick"
  /\ last.opcode >= 0
  /\ last.opcode \div 4096 = c
  /\ last.result # "Panic"

\* the fields of the word the last tick() fetched
LastX == (last.opcode \div 256) % 16
LastY == (last.opcode \div 16) % 16
LastD == last.opcode % 16
LastAddr == last.opcode % 4096
LastByte == last.opcode % 256

\* Vx and Vy before the last tick()
OldVx == before.v_registers[LastX]
OldVy == before.v_registers[LastY]

\* C3: after 8xy4 with x # F, Vx = (a + b) mod 256 and VF = 1 if a + b >= 256,
\* else 0, where a and b are Vx and Vy before the step
C3_AddCarry ==
  (Ticked(8) /\ LastD = 4 /\ LastX # 15) =>
     /\ v_registers[LastX] = (OldVx + OldVy) % 256
     /\ v_registers[15] = (IF OldVx + OldVy >= 256 THEN 1 ELSE 0)

C3_Witness ==
  /\ Ticked(8) /\ LastD = 4 /\ LastX # 15
  /\ OldVx + OldVy >= 256
  /\ OldVx # OldVy
  /\ v_registers[15] = 1

\* C4: after 8xy5 with x # F, Vx = (a - b) mod 256 and VF = 1 if and only if
\* a >= b (no borrow), else 0
C4_SubNotBorrow ==
  (Ticked(8) /\ LastD = 5 /\ LastX # 15) =>
     /\ v_registers[LastX] = (OldVx - OldVy) % 256
     /\ v_registers[15] = (IF OldVx >= OldVy THEN 1 ELSE 0)

\* C5: after 8xy7 with x # F, Vx = (b - a) mod 256 and VF = 1 if and only if
\* b >= a (no borrow), else 0
C5_SubnNotBorrow ==
  (Ticked(8) /\ LastD = 7 /\ LastX # 15) =>
     /\ v_registers[LastX] = (OldVy - OldVx) % 256
     /\ v_registers[15] = (IF OldVy >= OldVx THEN 1 ELSE 0)

\* C6: after 8xy6 VF is the least significant bit of the old Vx and after 8xyE
\* its most significant bit, for every x (F included); for x # F, Vx becomes
\* v div 2 (8xy6) or (2 * v) mod 256 (8xyE)
C6_ShiftFlag ==
  /\ (Ticked(8) /\ LastD = 6) =>
        /\ v_registers[15] = OldVx % 2
        /\ (LastX # 15 => v_registers[LastX] = OldVx \div 2)
  /\ (Ticked(8) /\ LastD = 14) =>
        /\ v_registers[15] = OldVx \div 128
        /\ (LastX # 15 => v_registers[LastX] = (2 * OldVx) % 256)

C6_Witness ==
  /\ Ticked(8) /\ LastD = 6 /\ LastX = 15
  /\ OldVx = 255
  /\ v_registers[15] = 1

\* the loop of it_works has ended: tick() returned None for the word at 0x204
ItWorksHalted ==
  /\ last.op = "tick"
  /\ last.result = "None"
  /\ before.program_counter = START_ADDR + 4
  /\ fault = NoFault

\* C1: with V0 = 5 and V1 = 10 the loop of it_works ends, without a fault, at the
\* halt word at 0x204 and V0 = 45 then (for any start, V0 + 4 * V1 mod 256)
C1_ItWorks ==
  <>[](/\ ItWorksHalted
       /\ v_registers[0] = (start[0] + 4 * start[1]) % 256
       /\ (start[0] = 5 /\ start[1] = 10 => v_registers[0] = 45))

C1_Witness ==
  /\ ItWorksHalted
  /\ start[0] = 5 /\ start[1] = 10
  /\ v_registers[0] = 45

\* C2: when a tick() has executed CALL nnn at p with a stack pointer below 16 and
\* the word at nnn is RET, the next tick() leaves PC = p + 2 and the stack
\* pointer as it was before the call
C2_CallRet ==
  [][ ( /\ Ticked(2)
        /\ before.stack_pointer < 16
        /\ fetch_in_bounds(Machine)
        /\ opcode_at(Machine) = 238
        /\ last'.op = "tick" )
      => ( /\ program_counter' = before.program_counter + 2
           /\ stack_pointer' = before.stack_pointer
           /\ fault' = NoFault ) ]_vars

\* a RET has returned to the instruction after the CALL that led to it
C2_Witness ==
  /\ steps = 2
  /\ Ticked(0) /\ last.opcode = 238
  /\ program_counter >= OPCODE_SIZE
  /\ memory[program_counter - 2] * 256 + memory[program_counter - 1]
       = 8192 + before.program_counter
  /\ stack_pointer = 1

\* C7: a tick() that fetches Fx0A at p leaves PC = p and every register unchanged
\* while no key is pressed; with a key pressed it leaves PC = p + 2 and Vx the
\* index of the lowest-indexed pressed key
C7_KeyWait ==
  [][ ( /\ fetch_in_bounds(Machine)
        /\ opcode_at(Machine) \div 4096 = 15
        /\ opcode_at(Machine) % 256 = 10
        /\ fault = NoFault
        /\ last'.op = "tick" )
      => LET x == (opcode_at(Machine) \div 256) % 16
         IN  IF \A k \in 0..15 : ~keyboard[k]
             THEN /\ program_counter' = program_counter
                  /\ v_registers' = v_registers
             ELSE /\ program_counter' = program_counter + 2
                  /\ keyboard[v_registers'[x]]
                  /\ \A k \in 0..15 : keyboard[k] => v_registers'[x] <= k ]_vars

\* after a blocked step and two key presses the wait has ended with the lower key
C7_Witness ==
  /\ steps = 4
  /\ Ticked(15) /\ LastY = 0 /\ LastD = 10
  /\ keyboard[1] /\ keyboard[15] /\ ~keyboard[0]
  /\ program_counter = START_ADDR + 2
  /\ v_registers[LastX] = 1

\* C8: tick_timers() decrements each timer by 1 when it is nonzero and leaves it
\* at 0 otherwise, each independently of the other, and changes nothing else
C8_TickTimers ==
  [][ last'.op = "tick_timers"
      => /\ delay_timer' = (IF delay_timer > 0 THEN delay_timer - 1 ELSE 0)
         /\ sound_timer' = (IF sound_timer > 0 THEN sound_timer - 1 ELSE 0)
         /\ UNCHANGED << v_registers, i_register, program_counter, memory,
                         stack_pointer, stack, display, keyboard, fault >> ]_vars

\* the sound timer was set to 1 and ticked twice: 0 and still 0, while the
\* delay timer counts on
C8_Witness ==
  /\ steps = 4
  /\ last.op = "tick_timers"
  /\ start[0] = 3 /\ start[1] = 1
  /\ sound_timer = 0
  /\ delay_timer = 1

\* the last operation was a tick() that fetched Dxyn (it may have panicked on a row)
Drew == last.op = "tick" /\ last.opcode >= 0 /\ last.opcode \div 4096 = 13

\* the byte of sprite row `row` of the last draw, read at I + row (in u16)
SpriteByte(row) == memory[(before.i_register + row) % 65536]

\* the rows of the last draw whose byte is inside memory
SpriteRows == {row \in 0..(LastD - 1) : (before.i_register + row) % 65536 < 4096}

\* the cells the sprite of the last draw covers with a set bit
SpriteCells ==
  {((OldVx + col) % 64) + 64 * ((OldVy + row) % 32) :
     << row, col >> \in {rc \in SpriteRows \X (0..7) :
                          (SpriteByte(rc[1]) \div Pow2(7 - rc[2])) % 2 = 1}}

\* the cells the last operation changed
ChangedCells == {idx \in 0..2047 : display[idx] # before.display[idx]}

\* C9: a draw changes only cells ((Vx + column) mod 64) + 64 * ((Vy + row) mod 32)
\* of set sprite bits, all of them inside the 2048 cells; a draw that completes
\* changes all of them; an 8x1 all-ones sprite at (63, 31) flips exactly columns
\* 63, 0, 1, 2, 3, 4, 5, 6 of row 31
C9_DrawWraps ==
  Drew =>
    \E changed \in {ChangedCells}, cells \in {SpriteCells} :
      /\ changed \subseteq cells
      /\ cells \subseteq 0..2047
      /\ (fault = NoFault => changed = cells)
      /\ (/\ fault = NoFault /\ LastD = 1 /\ SpriteByte(0) = 255
          /\ OldVx = 63 /\ OldVy = 31)
         => changed = {64 * 31 + c : c \in {63, 0, 1, 2, 3, 4, 5, 6}}

C9_Witness ==
  /\ Drew /\ fault = NoFault
  /\ LastD = 1 /\ SpriteByte(0) = 255
  /\ OldVx = 63 /\ OldVy = 31
  /\ display[64 * 31 + 63] /\ display[64 * 31 + 6] /\ ~display[64 * 31 + 7]

\* the next tick() draws the word the last tick() drew, with Vx, Vy and I as they
\* were before that first draw
DrawsAgain ==
  /\ Drew /\ last.result = "Some"
  /\ fetch_in_bounds(Machine)
  /\ opcode_at(Machine) = last.opcode
  /\ v_registers[LastX] = OldVx
  /\ v_registers[LastY] = OldVy
  /\ i_register = before.i_register
  /\ last'.op = "tick"

\* C10, as claimed: the second of two equal draws restores the display of before
\* the first, and VF = 1 after it if the sprite has a set bit
C10_DrawTwice ==
  [][ DrawsAgain
      => ( /\ display' = before.display
           /\ fault' = NoFault
           /\ (\E row \in 0..(LastD - 1) : SpriteByte(row) # 0) => v_registers'[15] = 1 )
    ]_vars

\* C10, amended: the second of two equal draws restores the display of before the
\* first, and VF = 1 after it if the first draw switched at least one cell on
\* (VF = 0 if it switched none on)
C10_DrawTwiceAmended ==
  [][ DrawsAgain
      => ( /\ display' = before.display
           /\ fault' = NoFault
           /\ v_registers'[15] =
                (IF \E idx \in 0..2047 : display[idx] /\ ~before.display[idx]
                 THEN 1 ELSE 0) )
    ]_vars

\* the second of two equal draws over a lit background has put the display back
C10_Witness ==
  /\ steps = 3
  /\ Drew /\ last.result = "Some"
  /\ LastD = 2 /\ SpriteByte(0) = 255 /\ SpriteByte(1) = 129
  /\ v_registers[15] = 1
  /\ OldVx = 63 /\ OldVy = 31
  /\ display[64 * 31 + 3] /\ display[64 * 31 + 10]
  /\ \E idx \in 0..2047 : display[idx] # before.display[idx]

\* C11: after a Dxyn that completes, VF = 1 if and only if the draw switched off
\* at least one cell that was on, and VF = 0 otherwise (n = 0 and all-zero
\* sprites included)
C11_CollisionFlag ==
  (Drew /\ fault = NoFault) =>
     v_registers[15] =
       (IF \E idx \in 0..2047 : before.display[idx] /\ ~display[idx] THEN 1 ELSE 0)

\* a draw over a lit background has switched one cell off and another on
C11_Witness ==
  /\ Drew /\ fault = NoFault
  /\ LastD > 0
  /\ v_registers[15] = 1
  /\ \E idx \in 0..2047 : before.display[idx] /\ ~display[idx]
  /\ \E idx \in 0..2047 : ~before.display[idx] /\ display[idx]

\* C12: tick() returns None exactly when the fetched word is 0x0000 and Some(())
\* for every other word that does not fault; a step fetching 0x0000 runs no
\* handler: it adds 2 to PC and leaves registers, I, memory, stack, SP, display,
\* keypad and timers as they were
C12_HaltSentinel ==
  [][ (last'.op = "tick" /\ fetch_in_bounds(Machine)) =>
        /\ (last'.result = "None") <=> (opcode_at(Machine) = 0)
        /\ (opcode_at(Machine) # 0 /\ fault' = NoFault) => last'.result = "Some"
        /\ (opcode_at(Machine) = 0) =>
              /\ program_counter' = program_counter + OPCODE_SIZE
              /\ fault' = NoFault
              /\ UNCHANGED << v_registers, i_register, memory, stack, stack_pointer,
                              display, keyboard, delay_timer, sound_timer >> ]_vars

\* a run has executed an instruction that changed a register and then fetched 0x0000
C12_Witness ==
  /\ last.op = "tick" /\ last.opcode = 0 /\ last.result = "None"
  /\ fault = NoFault
  /\ steps = 2
  /\ v_registers # start
  /\ program_counter = before.program_counter + OPCODE_SIZE

\* C13: a CALL executed with SP = 16 ends in the stack-overflow fault and a RET
\* executed with SP = 0 in the stack-underflow fault; in both the handler leaves
\* the stack array and SP as they were and does not move PC to a target (PC
\* keeps its pre-advanced value)
C13_StackFaults ==
  [][ (last'.op = "tick" /\ fetch_in_bounds(Machine)) =>
        /\ (opcode_at(Machine) \div 4096 = 2 /\ stack_pointer = STACK_SIZE) =>
              /\ fault' = StackOverflow
              /\ stack' = stack /\ stack_pointer' = stack_pointer
              /\ program_counter' = program_counter + OPCODE_SIZE
        /\ (opcode_at(Machine) = 238 /\ stack_pointer = 0) =>
              /\ fault' = StackUnderflow
              /\ stack' = stack /\ stack_pointer' = stack_pointer
              /\ program_counter' = program_counter + OPCODE_SIZE ]_vars

\* a RET was executed on an empty stack
C13_Witness ==
  /\ last.op = "tick" /\ last.opcode = 238 /\ last.result = "Panic"
  /\ before.stack_pointer = 0
  /\ fault = StackUnderflow
  /\ stack_pointer = 0

\* the instruction words of the defined set: 00E0, 00EE, 1nnn, 2nnn, 3xkk, 4xkk,
\* 5xy0, 6xkk, 7xkk, 8xy0-8xy7, 8xyE, 9xy0, Annn, Bnnn, Cxkk, Dxyn, Ex9E, ExA1,
\* Fx07, Fx0A, Fx15, Fx18, Fx1E, Fx29, Fx33, Fx55, Fx65
DefinedWord(w) ==
  LET c == w \div 4096
      kk == w % 256
      d == w % 16
  IN  \/ w \in {224, 238}
      \/ c \in {1, 2, 3, 4, 6, 7, 10, 11, 12, 13}
      \/ c \in {5, 9} /\ d = 0
      \/ c = 8 /\ d \in (0..7) \cup {14}
      \/ c = 14 /\ kk \in {158, 161}
      \/ c = 15 /\ kk \in {7, 10, 21, 24, 30, 41, 51, 85, 101}

\* C14: a step that fetches a nonzero word outside the defined set ends in the
\* unimplemented-opcode fault and runs no handler (registers, I, SP and display
\* as before, PC pre-advanced by 2)
C14_UndefinedFaults ==
  (last.op = "tick" /\ last.opcode > 0 /\ ~DefinedWord(last.opcode)) =>
     /\ fault = NotImplemented
     /\ v_registers = before.v_registers
     /\ i_register = before.i_register
     /\ stack_pointer = before.stack_pointer
     /\ display = before.display
     /\ program_counter = before.program_counter + OPCODE_SIZE

\* the x nibble of the word the next tick() fetches
NextX == (opcode_at(Machine) \div 256) % 16

\* C15: after Fx33 with I + 2 inside memory, memory[I], memory[I+1] and
\* memory[I+2] hold the hundreds, tens and ones digits of Vx
C15_StoreBcd ==
  (Ticked(15) /\ LastByte = 51 /\ before.i_register + 2 < RAM_SIZE) =>
     /\ memory[before.i_register] = OldVx \div 100
     /\ memory[before.i_register + 1] = (OldVx \div 10) % 10
     /\ memory[before.i_register + 2] = OldVx % 10

\* C16: after Fx55 with I + x inside memory, memory[I + k] = Vk for k in 0..x,
\* every other byte of memory is as before and no register has changed
C16_StoreRegisters ==
  [][ (/\ last'.op = "tick" /\ fetch_in_bounds(Machine)
       /\ opcode_at(Machine) \div 4096 = 15 /\ opcode_at(Machine) % 256 = 85
       /\ i_register + NextX < RAM_SIZE) =>
        LET x == NextX IN
        /\ \A k \in 0..x : memory'[i_register + k] = v_registers[k]
        /\ \A a \in 0..(RAM_SIZE - 1) :
             (a < i_register \/ a > i_register + x) => memory'[a] = memory[a]
        /\ v_registers' = v_registers
        /\ fault' = NoFault ]_vars

\* C17: after Fx65 with I + x inside memory, Vk = memory[I + k] for k in 0..x,
\* V(x+1)..VF and memory are as before; and when the step before was Fx55 with
\* the same x and I, V0..Vx are what they were before that store
C17_LoadRegisters ==
  [][ (/\ last'.op = "tick" /\ fetch_in_bounds(Machine)
       /\ opcode_at(Machine) \div 4096 = 15 /\ opcode_at(Machine) % 256 = 101
       /\ i_register + NextX < RAM_SIZE) =>
        LET x == NextX IN
        /\ \A k \in 0..x : v_registers'[k] = memory[i_register + k]
        /\ \A k \in (x + 1)..(NUM_REGS - 1) : v_registers'[k] = v_registers[k]
        /\ memory' = memory
        /\ fault' = NoFault
        /\ (/\ last.op = "tick" /\ last.result = "Some"
            /\ last.opcode = Word(15, x, 5, 5)
            /\ i_register = before.i_register) =>
              \A k \in 0..x : v_registers'[k] = before.v_registers[k] ]_vars

\* C18: the stack pointer stays within 0..16; a step adds 1 to it exactly when it
\* is a CALL that does not fault, subtracts 1 exactly when it is a RET that does
\* not fault, and every other operation leaves it unchanged
C18_StackPointer ==
  [][ /\ stack_pointer \in 0..STACK_SIZE
      /\ stack_pointer' \in 0..STACK_SIZE
      /\ stack_pointer' \in {stack_pointer - 1, stack_pointer, stack_pointer + 1}
      /\ (stack_pointer' = stack_pointer + 1) <=>
           (/\ last'.op = "tick" /\ fetch_in_bounds(Machine)
            /\ opcode_at(Machine) \div 4096 = 2 /\ fault' = NoFault)
      /\ (stack_pointer' = stack_pointer - 1) <=>
           (/\ last'.op = "tick" /\ fetch_in_bounds(Machine)
            /\ opcode_at(Machine) = 238 /\ fault' = NoFault) ]_vars

\* sixteen nested calls have filled the stack
C18_Witness ==
  /\ Ticked(2)
  /\ before.stack_pointer = STACK_SIZE - 1
  /\ stack_pointer = STACK_SIZE
  /\ fault = NoFault

\* C19: every tick() reads the word memory[PC] * 256 + memory[PC + 1] and adds 2
\* to PC before dispatch (a handler that faults leaves PC at old PC + 2); after
\* JP nnn PC = nnn, after CALL nnn PC = nnn with old PC + 2 pushed, after
\* JP V0,nnn PC = nnn + V0, and after every instruction that is neither a
\* control-flow instruction nor a skip PC = old PC + 2
C19_FetchAdvance ==
  [][ (last'.op = "tick" /\ fetch_in_bounds(Machine)) =>
        LET w == memory[program_counter] * 256 + memory[program_counter + 1]
            c == w \div 4096
            nnn == w % 4096
        IN  /\ last'.opcode = w
            /\ fault' # NoFault => program_counter' = program_counter + OPCODE_SIZE
            /\ fault' = NoFault =>
                 CASE c = 1 -> program_counter' = nnn
                   [] c = 2 -> /\ program_counter' = nnn
                               /\ stack_pointer' = stack_pointer + 1
                               /\ stack'[stack_pointer] = program_counter + OPCODE_SIZE
                   [] c = 11 -> program_counter' = nnn + v_registers[0]
                   [] w = 238 \/ c \in {3, 4, 5, 9, 14} -> TRUE
                   [] OTHER -> program_counter' = program_counter + OPCODE_SIZE ]_vars

\* C19 (amended): as C19, except that Fx0A executed with no key pressed leaves PC
\* at old PC, so that the same instruction is fetched again
C19_FetchAdvanceAmended ==
  [][ (last'.op = "tick" /\ fetch_in_bounds(Machine)) =>
        LET w == memory[program_counter] * 256 + memory[program_counter + 1]
            c == w \div 4096
            nnn == w % 4096
        IN  /\ last'.opcode = w
            /\ fault' # NoFault => program_counter' = program_counter + OPCODE_SIZE
            /\ fault' = NoFault =>
                 CASE c = 1 -> program_counter' = nnn
                   [] c = 2 -> /\ program_counter' = nnn
                               /\ stack_pointer' = stack_pointer + 1
                               /\ stack'[stack_pointer] = program_counter + OPCODE_SIZE
                   [] c = 11 -> program_counter' = nnn + v_registers[0]
                   [] w = 238 \/ c \in {3, 4, 5, 9, 14} -> TRUE
                   [] c = 15 /\ w % 256 = 10 /\ (\A k \in 0..(NUM_KEYS - 1) : ~keyboard[k]) ->
                               program_counter' = program_counter
                   [] OTHER -> program_counter' = program_counter + OPCODE_SIZE ]_vars

\* a key-wait has completed with a key held down and moved on to the next word
C19_Witness ==
  /\ Ticked(15) /\ LastByte = 10
  /\ fault = NoFault
  /\ keyboard[5]
  /\ v_registers[LastX] = 5
  /\ program_counter = before.program_counter + OPCODE_SIZE

\* C20: in every state reachable by stepping a loaded program from new(), the
\* program counter is even
C20_PcEven == program_counter % 2 = 0

\* PC and every return address on the stack are even
EvenState ==
  /\ program_counter % 2 = 0
  /\ \A s \in 0..(stack_pointer - 1) : stack[s] % 2 = 0

\* the next tick() executes 1nnn or 2nnn with an odd nnn, or Bnnn with an odd nnn + V0
OddJump ==
  /\ fetch_in_bounds(Machine)
  /\ LET c == opcode_at(Machine) \div 4096
         nnn == opcode_at(Machine) % 4096
     IN  \/ c \in {1, 2} /\ nnn % 2 = 1
         \/ c = 11 /\ (nnn + v_registers[0]) % 2 = 1

\* C20 (amended): PC (and every return address on the stack) is even after new()
\* and stays even through every operation other than a tick() that executes
\* 1nnn or 2nnn with an odd nnn or Bnnn with an odd nnn + V0
C20_PcEvenAmended ==
  [][ (EvenState /\ ~(last'.op = "tick" /\ OddJump)) => EvenState' ]_vars

\* a run has called and returned twice and jumped back to an even address
C20_Witness ==
  /\ Ticked(1) /\ LastAddr % 2 = 0
  /\ program_counter = LastAddr
  /\ v_registers[0] = 2
  /\ stack_pointer = 0
  /\ fault = NoFault

\* C21: after Fx29, I = (Vx mod 16) * 5, the address of a glyph inside the font
\* area 0..79
C21_FontAddress ==
  (Ticked(15) /\ LastByte = 41) =>
     /\ i_register = (OldVx % 16) * 5
     /\ i_register + 4 < 80

\* C27: Fx1E ends without a fault with I = (I + Vx) mod 65536, whatever I earlier
\* Fx1E steps have reached, and leaves VF and every other register unchanged
C27_AddToI ==
  (last.op = "tick" /\ last.opcode \div 4096 = 15 /\ LastByte = 30) =>
     /\ fault = NoFault
     /\ i_register = (before.i_register + OldVx) % U16_MOD
     /\ v_registers = before.v_registers

\* C22: Ex9E leaves PC = old PC + 4 if the key Vx is pressed and old PC + 2
\* otherwise, ExA1 leaves PC = old PC + 4 if it is not pressed and old PC + 2
\* otherwise, for every value of Vx; neither faults nor changes the keypad or a
\* register
C22_KeySkips ==
  [][ (/\ last'.op = "tick" /\ fetch_in_bounds(Machine)
       /\ opcode_at(Machine) \div 4096 = 14
       /\ opcode_at(Machine) % 256 \in {158, 161}) =>
        LET vx == v_registers[NextX]
            skips == IF opcode_at(Machine) % 256 = 158
                     THEN keyboard[vx] ELSE ~keyboard[vx]
        IN  /\ fault' = NoFault
            /\ keyboard' = keyboard
            /\ v_registers' = v_registers
            /\ program_counter' \in {program_counter + 2, program_counter + 4}
            /\ vx < NUM_KEYS =>
                 program_counter' = program_counter + (IF skips THEN 4 ELSE 2) ]_vars

\* C23: 7xkk, 8xy0, 8xy1, 8xy2 and 8xy3 with x # F do not fault and change no
\* register other than Vx; in particular VF is as before, also when 7xkk wraps
C23_FlagUntouched ==
  (/\ last.op = "tick"
   /\ \/ last.opcode \div 4096 = 7
      \/ last.opcode \div 4096 = 8 /\ LastD \in 0..3
   /\ LastX # 15) =>
     /\ fault = NoFault
     /\ v_registers[15] = before.v_registers[15]
     /\ \A r \in 0..(NUM_REGS - 1) : r # LastX => v_registers[r] = before.v_registers[r]

\* an add-immediate has wrapped past 255 and VF is still what it was
C23_Witness ==
  /\ Ticked(7) /\ LastX # 15
  /\ OldVx + LastByte >= U8_MOD
  /\ v_registers[LastX] = OldVx + LastByte - U8_MOD
  /\ v_registers[LastX] # OldVx
  /\ v_registers[15] = 243
  /\ before.v_registers[15] = 243

\* C24: the framebuffer changes only in a tick() that executes 00E0 or Dxyn, and
\* after 00E0 all 2048 cells are off; every other instruction, tick_timers(),
\* keypress() and load leave every cell as it was
C24_DisplayFrame ==
  [][ /\ (display' # display) =>
           (/\ last'.op = "tick" /\ fetch_in_bounds(Machine)
            /\ (opcode_at(Machine) = 224 \/ opcode_at(Machine) \div 4096 = 13))
      /\ (last'.op = "tick" /\ fetch_in_bounds(Machine) /\ opcode_at(Machine) = 224) =>
           (fault' = NoFault /\ \A idx \in 0..(SCREEN_HEIGHT * SCREEN_WIDTH - 1) : ~display'[idx])
    ]_vars

\* a clear-display has switched a lit framebuffer off
C24_Witness ==
  /\ last.op = "tick" /\ last.opcode = 224 /\ fault = NoFault
  /\ \E idx \in 0..(SCREEN_HEIGHT * SCREEN_WIDTH - 1) : before.display[idx]
  /\ display = BlankDisplay

\* C25: once a program is loaded, memory changes only in a tick() that executes
\* Fx33 or Fx55 (or in a further load); every other instruction, Dxyn and Fx65
\* included, tick_timers() and keypress() leave all 4096 bytes as they were
C25_MemoryFrame ==
  [][ (memory' # memory) =>
        \/ last'.op = "load"
        \/ /\ last'.op = "tick" /\ fetch_in_bounds(Machine)
           /\ opcode_at(Machine) \div 4096 = 15
           /\ opcode_at(Machine) % 256 \in {51, 85} ]_vars

\* a BCD store has overwritten the first font bytes
C25_Witness ==
  /\ Ticked(15) /\ LastByte = 51
  /\ before.i_register = 0
  /\ memory[0] = 0 /\ FontMemory[0] = 240
  /\ fault = NoFault

\* C26: a tick() changes the delay timer only when it executes Fx15 (to Vx) and
\* the sound timer only when it executes Fx18 (to Vx), so it never decrements
\* one; no tick() and no tick_timers() changes a keypad cell; the keypad changes
\* only in keypress(idx, pressed), and then only at idx
C26_TimersKeypad ==
  [][ /\ (last'.op = "tick" /\ delay_timer' # delay_timer) =>
           (/\ fetch_in_bounds(Machine)
            /\ opcode_at(Machine) \div 4096 = 15 /\ opcode_at(Machine) % 256 = 21
            /\ delay_timer' = v_registers[NextX])
      /\ (last'.op = "tick" /\ sound_timer' # sound_timer) =>
           (/\ fetch_in_bounds(Machine)
            /\ opcode_at(Machine) \div 4096 = 15 /\ opcode_at(Machine) % 256 = 24
            /\ sound_timer' = v_registers[NextX])
      /\ (keyboard' # keyboard) =>
           (/\ last'.op = "keypress"
            /\ \A k \in 0..(NUM_KEYS - 1) : k # last'.opcode => keyboard'[k] = keyboard[k])
    ]_vars

\* after a timer tick, Fx15 has set the delay timer to V1 and left the sound timer
C26_Witness ==
  /\ Ticked(15) /\ LastByte = 21 /\ LastX = 1
  /\ delay_timer = 19
  /\ sound_timer = 18
  /\ steps = 2

\* v - k, or 0 when k >= v
CountedDown(v, k) == IF k >= v THEN 0 ELSE v - k

\* C28: with the delay timer set to v and the sound timer to w and no Fx15 or
\* Fx18 executed afterwards, after k calls of tick_timers() they hold
\* max(0, v - k) and max(0, w - k) however many tick() steps are interleaved
\* (so neither wraps below 0), and under repeated timer ticks both eventually
\* reach 0 and stay there
C28_TimerCountdown ==
  /\ [](/\ delay_timer = CountedDown(start[0], timer_calls)
        /\ sound_timer = CountedDown(start[1], timer_calls))
  /\ <>[](delay_timer = 0 /\ sound_timer = 0)

\* both timers have run out, the sound timer three timer ticks ago, with tick()
\* steps in between
C28_Witness ==
  /\ start[0] = 3 /\ start[1] = 1
  /\ timer_calls = 4
  /\ steps = 6
  /\ last.op = "tick_timers"
  /\ delay_timer = 0 /\ sound_timer = 0
  /\ v_registers[2] = 2

\* C29: a tick() whose fetch is inside memory aborts only with one of the three
\* fatal conditions: a CALL with the stack at capacity, a RET with an empty
\* stack, or an undefined opcode; no defined instruction aborts because of a
\* register value
C29_FaultCompleteness ==
  (last.op = "tick" /\ last.opcode >= 0 /\ fault # NoFault) =>
     \/ fault = StackOverflow /\ last.opcode \div 4096 = 2
                              /\ before.stack_pointer = STACK_SIZE
     \/ fault = StackUnderflow /\ last.opcode = 238 /\ before.stack_pointer = 0
     \/ fault = NotImplemented /\ ~DefinedWord(last.opcode)

====
